---- MODULE Spec2Model ----
(***************************************************************************)
(* Model of src/main.py: the NanoLibController helper class, its two pure  *)
(* decoders (decode_status, decode_mode) and the __main__ script that      *)
(* opens a bus, connects to the first device and runs the DS402 enable     *)
(* handshake followed by the profile-position move loop.                   *)
(*                                                                         *)
(* The vendor library (nanolib_accessor) is the environment: each call to  *)
(* it is logged in `calls` and its result (error or value) is chosen       *)
(* nondeterministically.                                                    *)
(***************************************************************************)
EXTENDS Integers, Sequences, FiniteSets, TLC

VARIABLES
    pc,                 \* position of the script (source line about to run)
    bus_hardware_ids,   \* main.py:463
    bus_id,             \* main.py:464
    bus_hw_options,     \* main.py:465
    device_ids,         \* main.py:468
    device_handle,      \* main.py:471
    status_word,        \* main.py:478, 506
    state,              \* main.py:479, 508
    mode,               \* main.py:489-490
    mode_code,          \* the number read at main.py:489, kept after line 490
    control_word,       \* main.py:493, 503
    x,                  \* main.py:524 loop variable
    count,              \* main.py:523, 534
    exception,          \* the exception that ended the run, if any
    calls,              \* the calls made on nanolib_accessor, in order
    bus_open,           \* gateway side: the bus hardware is open
    connected,          \* gateway side: the device is connected
    nanotec_vcp,        \* self.nanotec_vcp, main.py:126
    first_run           \* what the first fully successful run of the script did

vars == <<pc, bus_hardware_ids, bus_id, bus_hw_options, device_ids,
          device_handle, status_word, state, mode, mode_code, control_word, x,
          count, exception, calls, bus_open, connected, nanotec_vcp, first_run>>

----------------------------------------------------------------------------
(* Bounds of the model.                                                    *)

\* longest hardware list listAvailableBusHardware() returns
MaxHardware == 2
\* most devices scanDevices() returns
MaxDevices == 1
\* status words handed to decode_status range over 0..MaxStatusWord
MaxStatusWord == 65535
\* mode codes handed to decode_mode range over -MaxModeCode..MaxModeCode
MaxModeCode == 42

----------------------------------------------------------------------------
(* Python's integer operators.                                             *)

RECURSIVE BitAnd(_, _)
\* a & b on non-negative integers
BitAnd(a, b) ==
    IF a = 0 \/ b = 0 THEN 0
    ELSE (IF a % 2 = 1 /\ b % 2 = 1 THEN 1 ELSE 0)
         + 2 * BitAnd(a \div 2, b \div 2)

RECURSIVE BitOr(_, _)
\* a | b on non-negative integers
BitOr(a, b) ==
    IF a = 0 THEN b
    ELSE IF b = 0 THEN a
    ELSE (IF a % 2 = 1 \/ b % 2 = 1 THEN 1 ELSE 0)
         + 2 * BitOr(a \div 2, b \div 2)

\* value in list  (Python list membership)
InList(value, list) == \E i \in DOMAIN list : list[i] = value

----------------------------------------------------------------------------
(* decode_status (main.py:399-432)                                         *)

\* variant: 183 is missing from the Operation Enabled list
StatusTable_short ==
    [ NotReady      |-> <<0, 16, 32, 48, 128, 160, 144, 176>>,
      Disabled      |-> <<64, 80, 96, 112, 192, 208, 224, 240>>,
      Ready         |-> <<33, 49, 161, 177>>,
      SwitchedOn    |-> <<35, 51, 163, 179>>,
      Enabled       |-> <<39, 55, 167>>,
      QuickStop     |-> <<7, 23, 135, 151>>,
      FaultReaction |-> <<15, 31, 47, 63, 143, 159, 175, 191>>,
      Fault         |-> <<8, 24, 40, 56, 136, 152, 168, 184>> ]

\* variant: 39 is listed under Quick stop active as well
StatusTable_overlap ==
    [ NotReady      |-> <<0, 16, 32, 48, 128, 160, 144, 176>>,
      Disabled      |-> <<64, 80, 96, 112, 192, 208, 224, 240>>,
      Ready         |-> <<33, 49, 161, 177>>,
      SwitchedOn    |-> <<35, 51, 163, 179>>,
      Enabled       |-> <<39, 55, 167, 183>>,
      QuickStop     |-> <<7, 23, 39, 135, 151>>,
      FaultReaction |-> <<15, 31, 47, 63, 143, 159, 175, 191>>,
      Fault         |-> <<8, 24, 40, 56, 136, 152, 168, 184>> ]

\* the dict `state` of decode_status
StatusTable ==
    [ NotReady      |-> <<0, 16, 32, 48, 128, 160, 144, 176>>,
      Disabled      |-> <<64, 80, 96, 112, 192, 208, 224, 240>>,
      Ready         |-> <<33, 49, 161, 177>>,
      SwitchedOn    |-> <<35, 51, 163, 179>>,
      Enabled       |-> <<39, 55, 167, 183>>,
      QuickStop     |-> <<7, 23, 135, 151>>,
      FaultReaction |-> <<15, 31, 47, 63, 143, 159, 175, 191>>,
      Fault         |-> <<8, 24, 40, 56, 136, 152, 168, 184>> ]

\* variant: a filter one bit too wide
filter_wide == \b0000000111111111

\* filter = 0b0000000011111111
filter == \b0000000011111111

decode_status(sw) ==
    LET masked == BitAnd(sw, filter) IN
    IF InList(masked, StatusTable.NotReady) THEN "Not ready to switch on"
    ELSE IF InList(masked, StatusTable.Disabled) THEN "Switch on disabled"
    ELSE IF InList(masked, StatusTable.Ready) THEN "Ready to switch on"
    ELSE IF InList(masked, StatusTable.SwitchedOn) THEN "Switched on"
    ELSE IF InList(masked, StatusTable.Enabled) THEN "Operation Enabled"
    ELSE IF InList(masked, StatusTable.QuickStop) THEN "Quick stop active"
    ELSE IF InList(masked, StatusTable.FaultReaction) THEN "Fault reaction active"
    ELSE IF InList(masked, StatusTable.Fault) THEN "Fault"
    ELSE "Cannot determine controller state"

----------------------------------------------------------------------------
(* decode_mode (main.py:434-457)                                           *)

\* variant: the labels of codes 2 and 3 are exchanged
decode_mode_swapped(m) ==
    IF m = -2 THEN "Auto setup"
    ELSE IF m = -1 THEN "Clock-direction mode"
    ELSE IF m = 0 THEN "No mode change/no mode assigned"
    ELSE IF m = 1 THEN "Profile Position Mode"
    ELSE IF m = 2 THEN "Profile Velocity Mode"
    ELSE IF m = 3 THEN "Velocity Mode"
    ELSE IF m = 4 THEN "Profile Torque Mode"
    ELSE IF m = 5 THEN "Reserved"
    ELSE IF m = 6 THEN "Homing Mode"
    ELSE "Error not able to determine mode"

decode_mode(m) ==
    IF m = -2 THEN "Auto setup"
    ELSE IF m = -1 THEN "Clock-direction mode"
    ELSE IF m = 0 THEN "No mode change/no mode assigned"
    ELSE IF m = 1 THEN "Profile Position Mode"
    ELSE IF m = 2 THEN "Velocity Mode"
    ELSE IF m = 3 THEN "Profile Velocity Mode"
    ELSE IF m = 4 THEN "Profile Torque Mode"
    ELSE IF m = 5 THEN "Reserved"
    ELSE IF m = 6 THEN "Homing Mode"
    ELSE "Error not able to determine mode"

----------------------------------------------------------------------------
(* Values of the vendor library.                                           *)

\* Nanolib.OdIndex(index, subindex)
OdIndex(index, subindex) == <<index, subindex>>

StatusWordIndex == OdIndex(\H6041, 0)
ModeOfOperationIndex == OdIndex(\H6060, 0)
ModeDisplayIndex == OdIndex(\H6061, 0)
ControlWordIndex == OdIndex(\H6040, 0)
TargetPositionIndex == OdIndex(\H607A, 0)

\* range(4) of the move loop
Repetitions == 4
\* the target of the first half-cycle
TargetPosition == 1000

\* Names are sequences of words; 'Nanotec VCP' is the two-word pattern.
NanotecVCP == <<"Nanotec", "VCP">>

\* pattern in name  (Python substring test, on words)
Contains(pattern, name) ==
    \E k \in 0..(Len(name) - Len(pattern)) :
        \A j \in 1..Len(pattern) : name[k + j] = pattern[j]

BusHardwareId(name, protocol, hardware) ==
    [name |-> name, protocol |-> protocol, hardware |-> hardware]

\* the bus hardware the library may report
BusHardwareIds ==
    { BusHardwareId(NanotecVCP, "CANopen", "IXXAT"),
      BusHardwareId(NanotecVCP, "CANopen", "PEAK"),
      BusHardwareId(<<"USB", "Nanotec", "VCP", "COM3">>, "MODBUS RTU", "Serial Port"),
      BusHardwareId(NanotecVCP, "MODBUS VCP", "USB BUS"),
      BusHardwareId(NanotecVCP, "MODBUS TCP", "Network"),
      BusHardwareId(NanotecVCP, "EtherCAT", "Network"),
      BusHardwareId(<<"IXXAT", "USB-to-CAN">>, "CANopen", "IXXAT") }

\* the devices a scan may find
DeviceIds == {"C5-E-1-11"}

\* all sequences over S of length at most n
SeqsUpTo(S, n) == UNION { [1..k -> S] : k \in 0..n }

\* a library result object: hasError(), getError(), getResult()
Result(hasError, value) ==
    [hasError |-> hasError, error |-> IF hasError THEN "gateway error" ELSE "", value |-> value]

VoidResults == { Result(TRUE, 0), Result(FALSE, 0) }
NumberResults(values) == { Result(TRUE, 0) } \cup { Result(FALSE, v) : v \in values }
ListResults(S, n) == { Result(TRUE, <<>>) } \cup { Result(FALSE, l) : l \in SeqsUpTo(S, n) }

\* values the registers may hold when read
StatusReads == { \H0027, \H0250 }
ModeReads == { 1, 3 }
ControlWordReads == { 6, 15 }

\* one logged call on nanolib_accessor
Call(op, od, value, bits, ok) ==
    [op |-> op, od |-> od, value |-> value, bits |-> bits, ok |-> ok]
Log(op, result) == calls' = Append(calls, Call(op, <<>>, 0, 0, ~result.hasError))

----------------------------------------------------------------------------
(* Exceptions.                                                             *)

NoException ==
    [type |-> "", text |-> "", operation |-> "", handle |-> "", od |-> <<>>, error |-> ""]

\* Exception(text + error)
Exception(text, error) ==
    [type |-> "Exception", text |-> text, operation |-> "", handle |-> "",
     od |-> <<>>, error |-> error]

\* self.create_error_message(...): NanoLibController defines no such method,
\* so evaluating the argument of Exception(...) raises AttributeError and the
\* operation, handle, OdIndex and library error never reach the message.
create_error_message(operation, handle, od_index, error) ==
    [type |-> "AttributeError",
     text |-> "'NanoLibController' object has no attribute 'create_error_message'",
     operation |-> "", handle |-> "", od |-> <<>>, error |-> ""]

\* variant: a failure jumps to the cleanup lines instead of ending the run
Raise_cleanup(exc) == pc' = "L574" /\ exception' = exc

\* an uncaught exception ends the script
Raise(exc) == pc' = "raised" /\ exception' = exc

----------------------------------------------------------------------------
(* Methods of NanoLibController.                                           *)

RECURSIVE vcp_line(_, _, _)
\* the loop of get_bus_hardware: the last line whose name equals 'Nanotec VCP'
vcp_line(bus_hardware, line_num, found) ==
    IF line_num >= Len(bus_hardware) THEN found
    ELSE vcp_line(bus_hardware, line_num + 1,
                  IF bus_hardware[line_num + 1].name = NanotecVCP
                  THEN line_num ELSE found)

\* variant: the loop keeps the first match instead of the last
RECURSIVE select_loop_first(_, _, _)
select_loop_first(bus_hardwares, i, found) ==
    IF i >= Len(bus_hardwares) THEN found
    ELSE select_loop_first(bus_hardwares, i + 1,
                     IF Contains(NanotecVCP, bus_hardwares[i + 1].name) /\ found = -1
                     THEN i ELSE found)

RECURSIVE select_loop(_, _, _)
\* the loop of select_bus; -1 stands for the initial nanotec_vcp = ''
select_loop(bus_hardwares, i, found) ==
    IF i >= Len(bus_hardwares) THEN found
    ELSE select_loop(bus_hardwares, i + 1,
                     IF Contains(NanotecVCP, bus_hardwares[i + 1].name)
                     THEN i ELSE found)

\* select_bus: raises when nanotec_vcp is still '', else returns the index
select_bus(bus_hardwares) ==
    LET found == select_loop(bus_hardwares, 0, -1) IN
    [raised |-> found = -1, value |-> found]

\* variant: an unrecognised protocol gets empty options instead of the raise
bus_hardware_options_lenient(bus_hw_id) ==
    IF bus_hw_id.protocol = "CANopen"
    THEN [raised |-> FALSE,
          value |-> <<<<"can adapter baud rate", "1000K">>>>
                    \o (IF bus_hw_id.hardware = "IXXAT"
                        THEN <<<<"ixxat adapter bus number", "0">>>>
                        ELSE <<>>)]
    ELSE IF bus_hw_id.protocol = "MODBUS RTU"
    THEN [raised |-> FALSE,
          value |-> << <<"serial baud rate", "19200">>, <<"serial parity", "even">> >>]
    ELSE [raised |-> FALSE, value |-> <<>>]

\* bus_hardware_options: the options added, or the 'unknown protocol' raise
bus_hardware_options(bus_hw_id) ==
    IF bus_hw_id.protocol = "CANopen"
    THEN [raised |-> FALSE,
          value |-> <<<<"can adapter baud rate", "1000K">>>>
                    \o (IF bus_hw_id.hardware = "IXXAT"
                        THEN <<<<"ixxat adapter bus number", "0">>>>
                        ELSE <<>>)]
    ELSE IF bus_hw_id.protocol = "MODBUS RTU"
    THEN [raised |-> FALSE,
          value |-> << <<"serial baud rate", "19200">>, <<"serial parity", "even">> >>]
    ELSE IF bus_hw_id.protocol = "MODBUS VCP" \/ bus_hw_id.protocol = "MODBUS TCP"
    THEN [raised |-> FALSE, value |-> <<>>]
    ELSE [raised |-> TRUE, value |-> <<>>]

\* read_number: the call, and the raise when the result has an error
read_number(od_index, result) ==
    /\ calls' = Append(calls, Call("readNumber", od_index, 0, 0, ~result.hasError))
    /\ IF result.hasError
       THEN Raise(create_error_message("read_number", device_handle, od_index,
                                       result.error))
       ELSE exception' = exception

\* variant: the result's error is not looked at
write_number_ignoring(value, od_index, bit_length, result, next) ==
    /\ calls' = Append(calls, Call("writeNumber", od_index, value, bit_length,
                                   ~result.hasError))
    /\ pc' = next /\ exception' = exception

\* write_number: the call, and the raise when the result has an error
write_number(value, od_index, bit_length, result, next) ==
    /\ calls' = Append(calls, Call("writeNumber", od_index, value, bit_length,
                                   ~result.hasError))
    /\ IF result.hasError
       THEN Raise(create_error_message("write_number", device_handle, od_index,
                                       result.error))
       ELSE pc' = next /\ exception' = exception

----------------------------------------------------------------------------
(* The __main__ script (main.py:460-575), one action per statement.        *)

setupVars == <<bus_hardware_ids, bus_id, bus_hw_options, device_ids,
               device_handle, nanotec_vcp>>
readVars == <<status_word, state, mode, mode_code, control_word>>
loopVars == <<x, count>>
gatewayVars == <<bus_open, connected>>

NoRun == [done |-> FALSE, writes |-> <<>>, state |-> ""]

\* the state in which the script starts
Start ==
    /\ pc = "L461"
    /\ bus_hardware_ids = <<>> /\ bus_id = -1 /\ bus_hw_options = <<>>
    /\ device_ids = <<>> /\ device_handle = "" /\ nanotec_vcp = -1
    /\ status_word = -1 /\ state = "" /\ mode = "" /\ mode_code = 0
    /\ control_word = -1
    /\ x = -1 /\ count = 0
    /\ exception = NoException
    /\ calls = <<>>
    /\ bus_open = FALSE /\ connected = FALSE

Init == Start /\ first_run = NoRun

\* motorControl = NanoLibController(); motorControl.setup()
Setup ==
    /\ pc = "L461"
    /\ calls' = Append(calls, Call("setLoggingLevel", <<>>, 0, 0, TRUE))
    /\ pc' = "L463"
    /\ UNCHANGED <<setupVars, readVars, loopVars, gatewayVars, exception, first_run>>

\* bus_hardware_ids = motorControl.get_bus_hardware()
GetBusHardware ==
    /\ pc = "L463"
    /\ \E bus_hardware \in ListResults(BusHardwareIds, MaxHardware) :
        /\ Log("listAvailableBusHardware", bus_hardware)
        /\ IF bus_hardware.hasError
           THEN /\ Raise(Exception("Error: listAvailableBusHardware() - ",
                                   bus_hardware.error))
                /\ UNCHANGED <<bus_hardware_ids, nanotec_vcp>>
           ELSE IF bus_hardware.value = <<>>
           THEN /\ Raise(Exception("No bus hardware found.", ""))
                /\ UNCHANGED <<bus_hardware_ids, nanotec_vcp>>
           ELSE /\ nanotec_vcp' = vcp_line(bus_hardware.value, 0, nanotec_vcp)
                /\ bus_hardware_ids' = bus_hardware.value
                /\ pc' = "L464"
                /\ exception' = exception
    /\ UNCHANGED <<bus_id, bus_hw_options, device_ids, device_handle, readVars,
                   loopVars, gatewayVars, first_run>>

\* bus_id = motorControl.select_bus(bus_hardware_ids)
SelectBus ==
    /\ pc = "L464"
    /\ LET selected == select_bus(bus_hardware_ids) IN
       IF selected.raised
       THEN Raise(Exception("No USB Nanotec Controller Found", "")) /\ bus_id' = bus_id
       ELSE bus_id' = selected.value /\ pc' = "L465" /\ exception' = exception
    /\ UNCHANGED <<bus_hardware_ids, bus_hw_options, device_ids, device_handle,
                   nanotec_vcp, readVars, loopVars, gatewayVars, calls, first_run>>

\* bus_hw_options = motorControl.bus_hardware_options(bus_hardware_ids[bus_id])
BusHardwareOptions ==
    /\ pc = "L465"
    /\ LET options == bus_hardware_options(bus_hardware_ids[bus_id + 1]) IN
       IF options.raised
       THEN Raise(Exception("Error: unknown protocol", ""))
            /\ bus_hw_options' = bus_hw_options
       ELSE bus_hw_options' = options.value /\ pc' = "L467" /\ exception' = exception
    /\ UNCHANGED <<bus_hardware_ids, bus_id, device_ids, device_handle,
                   nanotec_vcp, readVars, loopVars, gatewayVars, calls, first_run>>

\* motorControl.open_bus_hardware(bus_hardware_ids[bus_id], bus_hw_options)
OpenBus ==
    /\ pc = "L467"
    /\ \E result \in VoidResults :
        /\ Log("openBusHardwareWithProtocol", result)
        /\ IF result.hasError
           THEN /\ Raise(Exception("Error: openBusHardwareWithProtocol() - ",
                                   result.error))
                /\ bus_open' = bus_open
           ELSE bus_open' = TRUE /\ pc' = "L468" /\ exception' = exception
    /\ UNCHANGED <<setupVars, readVars, loopVars, connected, first_run>>

\* device_ids = motorControl.scan_bus(bus_hardware_ids[bus_id])
ScanBus ==
    /\ pc = "L468"
    /\ \E result \in ListResults(DeviceIds, MaxDevices) :
        /\ Log("scanDevices", result)
        /\ IF result.hasError
           THEN /\ Raise(Exception("Error: scanDevices() - ", result.error))
                /\ device_ids' = device_ids
           ELSE IF Len(result.value) = 0
           THEN /\ Raise(Exception("No devices found.", ""))
                /\ device_ids' = device_ids
           ELSE device_ids' = result.value /\ pc' = "L471" /\ exception' = exception
    /\ UNCHANGED <<bus_hardware_ids, bus_id, bus_hw_options, device_handle,
                   nanotec_vcp, readVars, loopVars, gatewayVars, first_run>>

\* device_handle = motorControl.create_device(device_ids[0])
\* (addDevice(...).getResult(): the result's error is not looked at)
CreateDevice ==
    /\ pc = "L471"
    /\ \E result \in VoidResults :
        /\ Log("addDevice", result)
        /\ device_handle' = IF result.hasError THEN "invalid handle" ELSE device_ids[1]
    /\ pc' = "L473"
    /\ UNCHANGED <<bus_hardware_ids, bus_id, bus_hw_options, device_ids,
                   nanotec_vcp, readVars, loopVars, gatewayVars, exception, first_run>>

\* variant: the result of connectDevice is not looked at
ConnectDevice_unchecked ==
    /\ pc = "L473"
    /\ \E result \in VoidResults :
        /\ device_handle = "invalid handle" => result.hasError
        /\ Log("connectDevice", result)
        /\ connected' = (connected \/ ~result.hasError)
    /\ pc' = "L478" /\ exception' = exception
    /\ UNCHANGED <<setupVars, readVars, loopVars, bus_open, first_run>>

\* motorControl.connect_device(device_handle)
\* (the library refuses a handle that addDevice did not produce)
ConnectDevice ==
    /\ pc = "L473"
    /\ \E result \in VoidResults :
        /\ device_handle = "invalid handle" => result.hasError
        /\ Log("connectDevice", result)
        /\ IF result.hasError
           THEN /\ Raise(Exception("Error: connectDevice() - ", result.error))
                /\ connected' = connected
           ELSE connected' = TRUE /\ pc' = "L478" /\ exception' = exception
    /\ UNCHANGED <<setupVars, readVars, loopVars, bus_open, first_run>>

\* status_word = motorControl.read_number(device_handle, OdIndex(0x6041, 0x00))
ReadStatusWord ==
    /\ pc = "L478"
    /\ \E result \in NumberResults(StatusReads) :
        /\ read_number(StatusWordIndex, result)
        /\ IF result.hasError
           THEN status_word' = status_word
           ELSE status_word' = result.value /\ pc' = "L479"
    /\ UNCHANGED <<setupVars, state, mode, mode_code, control_word, loopVars,
                   gatewayVars, first_run>>

\* state = motorControl.decode_status(status_word)
DecodeStatus ==
    /\ pc = "L479"
    /\ state' = decode_status(status_word)
    /\ pc' = "L488"
    /\ UNCHANGED <<setupVars, status_word, mode, mode_code, control_word, loopVars,
                   gatewayVars, exception, calls, first_run>>

\* motorControl.write_number(device_handle, 1, OdIndex(0x6060, 0x00), 8)
SetProfilePositionMode ==
    /\ pc = "L488"
    /\ \E result \in VoidResults :
        write_number(1, ModeOfOperationIndex, 8, result, "L489")
    /\ UNCHANGED <<setupVars, readVars, loopVars, gatewayVars, first_run>>

\* mode = motorControl.read_number(device_handle, OdIndex(0x6061, 0x00))
ReadMode ==
    /\ pc = "L489"
    /\ \E result \in NumberResults(ModeReads) :
        /\ read_number(ModeDisplayIndex, result)
        /\ IF result.hasError
           THEN UNCHANGED <<mode, mode_code>>
           ELSE mode' = result.value /\ mode_code' = result.value /\ pc' = "L490"
    /\ UNCHANGED <<setupVars, status_word, state, control_word, loopVars,
                   gatewayVars, first_run>>

\* mode = motorControl.decode_mode(mode)
DecodeMode ==
    /\ pc = "L490"
    /\ mode' = decode_mode(mode)
    /\ pc' = "L493"
    /\ UNCHANGED <<setupVars, status_word, state, mode_code, control_word, loopVars,
                   gatewayVars, exception, calls, first_run>>

\* control_word = motorControl.read_number(device_handle, OdIndex(0x6040, 0x00))
ReadControlWord ==
    /\ pc = "L493"
    /\ \E result \in NumberResults(ControlWordReads) :
        /\ read_number(ControlWordIndex, result)
        /\ IF result.hasError
           THEN control_word' = control_word
           ELSE control_word' = result.value /\ pc' = "L497"
    /\ UNCHANGED <<setupVars, status_word, state, mode, mode_code, loopVars,
                   gatewayVars, first_run>>

\* motorControl.write_number(device_handle, 6, OdIndex(0x6040, 0x00), 16); sleep(2)
Shutdown ==
    /\ pc = "L497"
    /\ \E result \in VoidResults :
        write_number(6, ControlWordIndex, 16, result, "L499")
    /\ UNCHANGED <<setupVars, readVars, loopVars, gatewayVars, first_run>>

\* variant: the target position is written in place of controlword = 7
SwitchOn_late ==
    /\ pc = "L499"
    /\ \E result \in VoidResults :
        write_number(TargetPosition, TargetPositionIndex, 32, result, "L501")
    /\ UNCHANGED <<setupVars, readVars, loopVars, gatewayVars, first_run>>

\* motorControl.write_number(device_handle, 7, OdIndex(0x6040, 0x00), 16); sleep(2)
SwitchOn ==
    /\ pc = "L499"
    /\ \E result \in VoidResults :
        write_number(7, ControlWordIndex, 16, result, "L501")
    /\ UNCHANGED <<setupVars, readVars, loopVars, gatewayVars, first_run>>

\* motorControl.write_number(device_handle, 15, OdIndex(0x6040, 0x00), 16)
EnableOperation ==
    /\ pc = "L501"
    /\ \E result \in VoidResults :
        write_number(15, ControlWordIndex, 16, result, "L503")
    /\ UNCHANGED <<setupVars, readVars, loopVars, gatewayVars, first_run>>

\* control_word = motorControl.read_number(device_handle, OdIndex(0x6040, 0x00))
ReadControlWordAgain ==
    /\ pc = "L503"
    /\ \E result \in NumberResults(ControlWordReads) :
        /\ read_number(ControlWordIndex, result)
        /\ IF result.hasError
           THEN control_word' = control_word
           ELSE control_word' = result.value /\ pc' = "L506"
    /\ UNCHANGED <<setupVars, status_word, state, mode, mode_code, loopVars,
                   gatewayVars, first_run>>

\* status_word = motorControl.read_number(device_handle, OdIndex(0x6041, 0x00))
ReadStatusWordAgain ==
    /\ pc = "L506"
    /\ \E result \in NumberResults(StatusReads) :
        /\ read_number(StatusWordIndex, result)
        /\ IF result.hasError
           THEN status_word' = status_word
           ELSE status_word' = result.value /\ pc' = "L508"
    /\ UNCHANGED <<setupVars, state, mode, mode_code, control_word, loopVars,
                   gatewayVars, first_run>>

\* state = motorControl.decode_status(status_word)
DecodeStatusAgain ==
    /\ pc = "L508"
    /\ state' = decode_status(status_word)
    /\ pc' = "L523"
    /\ UNCHANGED <<setupVars, status_word, mode, mode_code, control_word, loopVars,
                   gatewayVars, exception, calls, first_run>>

\* count = 1
InitCount ==
    /\ pc = "L523"
    /\ count' = 1
    /\ pc' = "L524"
    /\ UNCHANGED <<setupVars, readVars, x, gatewayVars, exception, calls, first_run>>

\* variant: the loop runs only when the decoded state is Operation Enabled
ForLoop_guarded ==
    /\ pc = "L524"
    /\ IF x + 1 < Repetitions /\ state = "Operation Enabled"
       THEN x' = x + 1 /\ pc' = "L525"
       ELSE x' = x /\ pc' = "L574"
    /\ UNCHANGED <<setupVars, readVars, count, gatewayVars, exception, calls,
                   first_run>>

\* for x in range(4):
ForLoop ==
    /\ pc = "L524"
    /\ IF x + 1 < Repetitions
       THEN x' = x + 1 /\ pc' = "L525"
       ELSE x' = x /\ pc' = "L574"
    /\ UNCHANGED <<setupVars, readVars, count, gatewayVars, exception, calls,
                   first_run>>

\* motorControl.write_number(device_handle, 1000, OdIndex(0x607A, 0x00), 32)
WriteTarget ==
    /\ pc = "L525"
    /\ \E result \in VoidResults :
        write_number(TargetPosition, TargetPositionIndex, 32, result, "L526")
    /\ UNCHANGED <<setupVars, readVars, loopVars, gatewayVars, first_run>>

\* motorControl.write_number(device_handle, 0b11111, OdIndex(0x6040, 0x00), 16)
NewSetPoint ==
    /\ pc = "L526"
    /\ \E result \in VoidResults :
        write_number(\b11111, ControlWordIndex, 16, result, "L527")
    /\ UNCHANGED <<setupVars, readVars, loopVars, gatewayVars, first_run>>

\* motorControl.write_number(device_handle, 0b1111, OdIndex(0x6040, 0x00), 16); sleep(2)
ClearSetPoint ==
    /\ pc = "L527"
    /\ \E result \in VoidResults :
        write_number(\b1111, ControlWordIndex, 16, result, "L529")
    /\ UNCHANGED <<setupVars, readVars, loopVars, gatewayVars, first_run>>

\* motorControl.write_number(device_handle, 0, OdIndex(0x607A, 0x00), 32)
WriteZero ==
    /\ pc = "L529"
    /\ \E result \in VoidResults :
        write_number(0, TargetPositionIndex, 32, result, "L530")
    /\ UNCHANGED <<setupVars, readVars, loopVars, gatewayVars, first_run>>

\* variant: bit 4 (new set-point) is not set on the way back
NewSetPointBack_nobit ==
    /\ pc = "L530"
    /\ \E result \in VoidResults :
        write_number(\b1111, ControlWordIndex, 16, result, "L531")
    /\ UNCHANGED <<setupVars, readVars, loopVars, gatewayVars, first_run>>

\* motorControl.write_number(device_handle, 0b11111, OdIndex(0x6040, 0x00), 16)
NewSetPointBack ==
    /\ pc = "L530"
    /\ \E result \in VoidResults :
        write_number(\b11111, ControlWordIndex, 16, result, "L531")
    /\ UNCHANGED <<setupVars, readVars, loopVars, gatewayVars, first_run>>

\* variant: the half-cycle back ends with controlword = 6 (shutdown)
ClearSetPointBack_shutdown ==
    /\ pc = "L531"
    /\ \E result \in VoidResults :
        write_number(6, ControlWordIndex, 16, result, "L533")
    /\ UNCHANGED <<setupVars, readVars, loopVars, gatewayVars, first_run>>

\* motorControl.write_number(device_handle, 0b1111, OdIndex(0x6040, 0x00), 16); sleep(2)
ClearSetPointBack ==
    /\ pc = "L531"
    /\ \E result \in VoidResults :
        write_number(\b1111, ControlWordIndex, 16, result, "L533")
    /\ UNCHANGED <<setupVars, readVars, loopVars, gatewayVars, first_run>>

\* print(count); count += 1
CountUp ==
    /\ pc = "L533"
    /\ count' = count + 1
    /\ pc' = "L524"
    /\ UNCHANGED <<setupVars, readVars, x, gatewayVars, exception, calls, first_run>>

\* motorControl.disconnect_device(device_handle)
DisconnectDevice ==
    /\ pc = "L574"
    /\ \E result \in VoidResults :
        /\ Log("disconnectDevice", result)
        /\ IF result.hasError
           THEN /\ Raise(Exception("Error: disconnectDevice() - ", result.error))
                /\ connected' = connected
           ELSE connected' = FALSE /\ pc' = "L575" /\ exception' = exception
    /\ UNCHANGED <<setupVars, readVars, loopVars, bus_open, first_run>>

\* motorControl.close_bus_hardware(bus_hardware_ids[bus_id])
CloseBus ==
    /\ pc = "L575"
    /\ \E result \in VoidResults :
        /\ Log("closeBusHardware", result)
        /\ IF result.hasError
           THEN /\ Raise(Exception("Error: closeBusHardware() - ", result.error))
                /\ bus_open' = bus_open
           ELSE bus_open' = FALSE /\ pc' = "done" /\ exception' = exception
    /\ UNCHANGED <<setupVars, readVars, loopVars, connected, first_run>>

\* the writeNumber calls made so far, in order
Writes == SelectSeq(calls, LAMBDA c : c.op = "writeNumber")

\* The script is started again after a run has ended; the library releases the
\* bus and the device when the process exits (main.py:217, 293). What the
\* first fully successful run wrote is kept for comparison.
RunAgain ==
    /\ pc \in {"done", "raised"}
    /\ first_run' = IF pc = "done" /\ ~first_run.done
                    THEN [done |-> TRUE, writes |-> Writes, state |-> state]
                    ELSE first_run
    /\ pc' = "L461"
    /\ bus_hardware_ids' = <<>> /\ bus_id' = -1 /\ bus_hw_options' = <<>>
    /\ device_ids' = <<>> /\ device_handle' = "" /\ nanotec_vcp' = -1
    /\ status_word' = -1 /\ state' = "" /\ mode' = "" /\ mode_code' = 0
    /\ control_word' = -1
    /\ x' = -1 /\ count' = 0
    /\ exception' = NoException
    /\ calls' = <<>>
    /\ bus_open' = FALSE /\ connected' = FALSE

Next ==
    \/ Setup \/ GetBusHardware \/ SelectBus \/ BusHardwareOptions \/ OpenBus
    \/ ScanBus \/ CreateDevice \/ ConnectDevice
    \/ ReadStatusWord \/ DecodeStatus \/ SetProfilePositionMode \/ ReadMode
    \/ DecodeMode \/ ReadControlWord \/ Shutdown \/ SwitchOn \/ EnableOperation
    \/ ReadControlWordAgain \/ ReadStatusWordAgain \/ DecodeStatusAgain
    \/ InitCount \/ ForLoop \/ WriteTarget \/ NewSetPoint \/ ClearSetPoint
    \/ WriteZero \/ NewSetPointBack \/ ClearSetPointBack \/ CountUp
    \/ DisconnectDevice \/ CloseBus

\* one run of the script
Spec == Init /\ [][Next]_vars

\* the script run repeatedly
NextRuns == Next \/ RunAgain
SpecRuns == Init /\ [][NextRuns]_vars

\* the decoders alone, applied to every input in range
InitDecoders ==
    /\ \/ /\ pc = "L479"
          /\ status_word \in 0..MaxStatusWord
          /\ mode = "" /\ mode_code = 0
       \/ /\ pc = "L490"
          /\ status_word = -1
          /\ mode \in (0 - MaxModeCode)..MaxModeCode /\ mode_code = mode
    /\ bus_hardware_ids = <<>> /\ bus_id = -1 /\ bus_hw_options = <<>>
    /\ device_ids = <<>> /\ device_handle = "" /\ nanotec_vcp = -1
    /\ state = "" /\ control_word = -1
    /\ x = -1 /\ count = 0
    /\ exception = NoException
    /\ calls = <<>>
    /\ bus_open = FALSE /\ connected = FALSE
    /\ first_run = NoRun
NextDecoders == DecodeStatus \/ DecodeMode
SpecDecoders == InitDecoders /\ [][NextDecoders]_vars

----------------------------------------------------------------------------
(* Properties.                                                             *)

\* every call made so far succeeded
AllSucceeded == \A i \in DOMAIN calls : calls[i].ok
\* the last call made
LastCall == calls[Len(calls)]
IsWrite(c, od, value) == c.op = "writeNumber" /\ c.od = od /\ c.value = value
IsRegisterAccess(c) == c.op \in {"readNumber", "writeNumber"}
Called(op) == \E i \in DOMAIN calls : calls[i].op = op
TimesCalled(op) == Cardinality({i \in DOMAIN calls : calls[i].op = op})

StatusLabels ==
    { "Not ready to switch on", "Switch on disabled", "Ready to switch on",
      "Switched on", "Operation Enabled", "Quick stop active",
      "Fault reaction active", "Fault", "Cannot determine controller state" }

\* the state the table of the specification gives for a low byte
TableState(b) ==
    IF b \in {0, 16, 32, 48, 128, 160, 144, 176} THEN "Not ready to switch on"
    ELSE IF b \in {64, 80, 96, 112, 192, 208, 224, 240} THEN "Switch on disabled"
    ELSE IF b \in {33, 49, 161, 177} THEN "Ready to switch on"
    ELSE IF b \in {35, 51, 163, 179} THEN "Switched on"
    ELSE IF b \in {39, 55, 167, 183} THEN "Operation Enabled"
    ELSE IF b \in {7, 23, 135, 151} THEN "Quick stop active"
    ELSE IF b \in {15, 31, 47, 63, 143, 159, 175, 191} THEN "Fault reaction active"
    ELSE IF b \in {8, 24, 40, 56, 136, 152, 168, 184} THEN "Fault"
    ELSE "Cannot determine controller state"

\* C1: for every status word, decode_status returns the state the table lists
\* for its low byte, and 'Cannot determine controller state' for every low
\* byte the table does not list; it always returns one of the nine results.
C1_DecodeStatusTable ==
    pc = "L488" =>
        /\ state = TableState(status_word % 256)
        /\ state \in StatusLabels

\* a status word with high bits set whose low byte 183 is Operation Enabled
C1_Witness ==
    pc = "L488" /\ status_word = \H02B7 /\ state = "Operation Enabled"

\* C2: decode_status does not depend on the high byte: the state decoded from
\* x is the state decoded from x | 0xFF00, and the one decoded from x & 0x00FF.
C2_HighByteInvariant ==
    pc = "L488" =>
        /\ state = decode_status(BitOr(status_word, \HFF00))
        /\ state = decode_status(status_word % 256)

\* decode_status(0x1F08) is Fault
C2_Witness ==
    pc = "L488" /\ status_word = \H1F08 /\ state = "Fault"

\* the label the specification gives for a mode code
ModeLabel(code) ==
    CASE code = -2 -> "Auto setup"
      [] code = -1 -> "Clock-direction mode"
      [] code = 0 -> "No mode change/no mode assigned"
      [] code = 1 -> "Profile Position Mode"
      [] code = 2 -> "Velocity Mode"
      [] code = 3 -> "Profile Velocity Mode"
      [] code = 4 -> "Profile Torque Mode"
      [] code = 5 -> "Reserved"
      [] code = 6 -> "Homing Mode"
      [] OTHER -> "Error not able to determine mode"

\* C3: decode_mode returns the mapped label for each code in -2..6 and
\* 'Error not able to determine mode' for any other integer.
C3_DecodeMode ==
    pc = "L493" => mode = ModeLabel(mode_code)

\* decode_mode(-2) is Auto setup
C3_Witness ==
    pc = "L493" /\ mode_code = -2 /\ mode = "Auto setup"

\* C4: while every call succeeds, the first four writes are mode 1 to 0x6060,
\* then controlword 6, 7, 15, in this order, and every write to the target
\* position register comes after the controlword = 15 write.
C4_HandshakeOrder ==
    AllSucceeded =>
        LET w == Writes IN
        /\ Len(w) >= 1 => IsWrite(w[1], ModeOfOperationIndex, 1)
        /\ Len(w) >= 2 => IsWrite(w[2], ControlWordIndex, 6)
        /\ Len(w) >= 3 => IsWrite(w[3], ControlWordIndex, 7)
        /\ Len(w) >= 4 => IsWrite(w[4], ControlWordIndex, 15)
        /\ \A i \in DOMAIN w :
              w[i].od = TargetPositionIndex =>
                  \E j \in 1..(i - 1) : IsWrite(w[j], ControlWordIndex, 15)
        /\ pc = "done" => Len(w) >= 4

\* the first target-position write has just been issued after the handshake
C4_Witness ==
    /\ AllSucceeded /\ pc = "L526" /\ x = 0
    /\ Len(Writes) = 5
    /\ IsWrite(Writes[5], TargetPositionIndex, TargetPosition)

\* the k-th write of the move loop: target, 31, 15, zero, 31, 15, repeated
CycleCall(k) ==
    CASE k % 6 = 1 -> Call("writeNumber", TargetPositionIndex, TargetPosition, 32, TRUE)
      [] k % 6 = 2 -> Call("writeNumber", ControlWordIndex, 31, 16, TRUE)
      [] k % 6 = 3 -> Call("writeNumber", ControlWordIndex, 15, 16, TRUE)
      [] k % 6 = 4 -> Call("writeNumber", TargetPositionIndex, 0, 32, TRUE)
      [] k % 6 = 5 -> Call("writeNumber", ControlWordIndex, 31, 16, TRUE)
      [] OTHER -> Call("writeNumber", ControlWordIndex, 15, 16, TRUE)

\* the writes made after the four writes of the enable handshake
MoveWrites == SubSeq(Writes, 5, Len(Writes))

\* C5: while every call succeeds, the writes of the move loop are, per
\* repetition, the target write, controlword 31, controlword 15, the write of
\* target 0, controlword 31, controlword 15, with no other write in between;
\* a completed run has made 2N target writes and 4N controlword writes after
\* the handshake, N being the number of repetitions.
C5_MoveLoop ==
    AllSucceeded =>
        LET m == MoveWrites IN
        /\ \A k \in DOMAIN m : m[k] = CycleCall(k)
        /\ Len(m) <= 6 * Repetitions
        /\ pc = "done" =>
            /\ Cardinality({k \in DOMAIN m : m[k].od = TargetPositionIndex})
                  = 2 * Repetitions
            /\ Cardinality({k \in DOMAIN m : m[k].od = ControlWordIndex})
                  = 4 * Repetitions
            /\ Len(Writes) = 4 + 6 * Repetitions

\* a run that completed all repetitions
C5_Witness ==
    /\ AllSucceeded /\ pc = "done" /\ x = Repetitions - 1
    /\ Len(MoveWrites) = 6 * Repetitions

\* C6: a register access of the sequence that reports an error is the last
\* call of the run: the run has ended, nothing is retried and no later read
\* or write (controlword 15, the target position) is issued.
C6_PropagateAndAbort ==
    \A i \in DOMAIN calls :
        IsRegisterAccess(calls[i]) /\ ~calls[i].ok =>
            /\ i = Len(calls)
            /\ pc = "raised"
            /\ exception.type # ""

\* the write of controlword = 7 failed and ended the run
C6_Witness ==
    /\ pc = "raised"
    /\ Len(calls) > 0
    /\ IsWrite(LastCall, ControlWordIndex, 7) /\ ~LastCall.ok
    /\ ~\E i \in DOMAIN calls : IsWrite(calls[i], ControlWordIndex, 15)
    /\ ~\E i \in DOMAIN calls : calls[i].od = TargetPositionIndex

\* C7: when a register access fails, the exception names the operation
\* ('write_number' or 'read_number'), the device handle and the OdIndex.
C7_ErrorNamesOperation ==
    (pc = "raised" /\ Len(calls) > 0 /\ IsRegisterAccess(LastCall) /\ ~LastCall.ok) =>
        /\ exception.operation
              = (IF LastCall.op = "writeNumber" THEN "write_number" ELSE "read_number")
        /\ exception.handle = device_handle
        /\ exception.od = LastCall.od

KnownProtocols == {"CANopen", "MODBUS RTU", "MODBUS VCP", "MODBUS TCP"}
\* the bus hardware select_bus chose
SelectedBus == bus_hardware_ids[bus_id + 1]
OptionNames(options) == {options[i][1] : i \in DOMAIN options}

\* C8: once bus_hardware_options has run, either the protocol is one of the
\* four known ones and the options are those of the protocol (CANopen: baud
\* rate, and the adapter bus number exactly for IXXAT; Modbus RTU: baud rate
\* and parity; Modbus VCP/TCP: none), or the run has ended with 'unknown
\* protocol' and the bus was never opened.
C8_BusHardwareOptions ==
    (bus_id # -1 /\ pc # "L465") =>
        IF SelectedBus.protocol \in KnownProtocols
        THEN /\ exception.text # "Error: unknown protocol"
             /\ OptionNames(bus_hw_options) =
                  (CASE SelectedBus.protocol = "CANopen" ->
                          {"can adapter baud rate"}
                          \cup (IF SelectedBus.hardware = "IXXAT"
                                THEN {"ixxat adapter bus number"} ELSE {})
                     [] SelectedBus.protocol = "MODBUS RTU" ->
                          {"serial baud rate", "serial parity"}
                     [] OTHER -> {})
             /\ Len(bus_hw_options) = Cardinality(OptionNames(bus_hw_options))
        ELSE /\ pc = "raised"
             /\ exception.text = "Error: unknown protocol"
             /\ ~Called("openBusHardwareWithProtocol")

\* an EtherCAT adapter was selected and the run ended before open_bus
C8_Witness ==
    /\ bus_id # -1 /\ pc = "raised"
    /\ SelectedBus.protocol = "EtherCAT"
    /\ exception.text = "Error: unknown protocol"

\* the index of the first call of an operation, 0 when it was not called
FirstCallOf(op) ==
    LET made == {i \in DOMAIN calls : calls[i].op = op} IN
    IF made = {} THEN 0 ELSE CHOOSE i \in made : \A j \in made : i <= j
BusWasOpened ==
    \E i \in DOMAIN calls : calls[i].op = "openBusHardwareWithProtocol" /\ calls[i].ok
DeviceWasConnected ==
    \E i \in DOMAIN calls : calls[i].op = "connectDevice" /\ calls[i].ok

\* disconnect and close_bus are called at most once each, close_bus after
\* disconnect, and only when every earlier call of the run succeeded and the
\* move loop is complete
C9_CleanupOnlyAtEnd ==
    /\ TimesCalled("disconnectDevice") <= 1
    /\ TimesCalled("closeBusHardware") <= 1
    /\ Called("closeBusHardware") =>
          /\ Called("disconnectDevice")
          /\ FirstCallOf("disconnectDevice") = Len(calls) - 1
          /\ FirstCallOf("closeBusHardware") = Len(calls)
          /\ calls[Len(calls) - 1].ok
    /\ Called("disconnectDevice") =>
          /\ \A j \in 1..(FirstCallOf("disconnectDevice") - 1) : calls[j].ok
          /\ x = Repetitions - 1
          /\ Len(Writes) = 4 + 6 * Repetitions

C10_WritesIndependentOfReads ==
    pc = "done" =>
        /\ first_run.done => Writes = first_run.writes
        /\ \E i \in DOMAIN calls :
              IsWrite(calls[i], TargetPositionIndex, TargetPosition)

\* two completed runs that decoded different states and wrote the same
C10_Witness ==
    /\ pc = "done" /\ first_run.done
    /\ first_run.state = "Operation Enabled"
    /\ state = "Switch on disabled"
    /\ mode = "Profile Velocity Mode" /\ control_word = 6
    /\ Writes = first_run.writes
    /\ Len(Writes) = 4 + 6 * Repetitions

\* the index of the first successful call of an operation, 0 when there is none
FirstOkCallOf(op) ==
    LET made == {i \in DOMAIN calls : calls[i].op = op /\ calls[i].ok} IN
    IF made = {} THEN 0 ELSE CHOOSE i \in made : \A j \in made : i <= j
\* operation `later` was called only after a successful call of `earlier`
OnlyAfterOk(later, earlier) ==
    LET first == FirstOkCallOf(earlier) IN
    Called(later) => (first > 0 /\ first < FirstCallOf(later))

MaskState(sw) ==
    IF BitAnd(sw, \H4F) = \H00 THEN "Not ready to switch on"
    ELSE IF BitAnd(sw, \H4F) = \H40 THEN "Switch on disabled"
    ELSE IF BitAnd(sw, \H6F) = \H21 THEN "Ready to switch on"
    ELSE IF BitAnd(sw, \H6F) = \H23 THEN "Switched on"
    ELSE IF BitAnd(sw, \H6F) = \H27 THEN "Operation Enabled"
    ELSE IF BitAnd(sw, \H6F) = \H07 THEN "Quick stop active"
    ELSE IF BitAnd(sw, \H4F) = \H0F THEN "Fault reaction active"
    ELSE IF BitAnd(sw, \H4F) = \H08 THEN "Fault"
    ELSE "Cannot determine controller state"

\* the lists of the table that hold the low byte of a status word
ListsHolding(sw) ==
    {k \in DOMAIN StatusTable : InList(BitAnd(sw, filter), StatusTable[k])}

\* C12: for every status word the state decode_status returns is the one the
\* DS402 bit masks give, and the low byte is in at most one of the eight
\* lists, so the order of the elif chain does not matter.
C12_TableMatchesMasks ==
    pc = "L488" =>
        /\ state = MaskState(status_word)
        /\ Cardinality(ListsHolding(status_word)) <= 1
        /\ state = "Cannot determine controller state"
              <=> ListsHolding(status_word) = {}

\* 0x02B7: (x & 0x6F) = 0x27, in the Operation Enabled list only
C12_Witness ==
    /\ pc = "L488" /\ status_word = \H02B7 + \H0400
    /\ BitAnd(status_word, \H6F) = \H27
    /\ ListsHolding(status_word) = {"Enabled"}
    /\ state = "Operation Enabled"

\* the writes made to one register, in order
WritesTo(od) == SelectSeq(Writes, LAMBDA c : c.od = od)
Last(seq) == seq[Len(seq)]

\* C13: every controlword written after the controlword = 15 write is 31 or
\* 15; when the script reaches the disconnect, the last controlword written
\* is 15 and the last target position written is 0.
C13_StaysEnabled ==
    LET w == Writes
        cw == SelectSeq(w, LAMBDA c : c.od = ControlWordIndex)
        tp == SelectSeq(w, LAMBDA c : c.od = TargetPositionIndex)
        enabled == {i \in DOMAIN cw : cw[i].value = 15}
    IN  /\ \A j \in DOMAIN cw :
              (\E i \in enabled : i < j) => cw[j].value \in {31, 15}
        /\ Called("disconnectDevice") =>
              /\ cw # <<>> /\ Last(cw).value = 15
              /\ tp # <<>> /\ Last(tp).value = 0
              /\ Last(w).od = ControlWordIndex

\* a fully successful run: disconnected and closed with the drive left at
\* controlword 15 and target 0
C13_Witness ==
    /\ pc = "done" /\ AllSucceeded
    /\ Called("disconnectDevice") /\ Called("closeBusHardware")
    /\ Last(WritesTo(ControlWordIndex)).value = 15
    /\ Last(WritesTo(TargetPositionIndex)).value = 0
    /\ Len(WritesTo(ControlWordIndex)) = 3 + 4 * Repetitions

\* the indices (from 0) of the hardware whose name contains 'Nanotec VCP'
VcpIndices ==
    {i \in 0..(Len(bus_hardware_ids) - 1) :
        Contains(NanotecVCP, bus_hardware_ids[i + 1].name)}
NoControllerFound == exception.text = "No USB Nanotec Controller Found"

\* C14: once select_bus has run on the hardware list, bus_id is the largest
\* index whose name contains 'Nanotec VCP' whenever there is one (index 0
\* included), and the run has ended with 'No USB Nanotec Controller Found'
\* exactly when there is none; in that case the bus is never opened.
C14_SelectBus ==
    LET matching == VcpIndices IN
    /\ bus_id # -1 =>
          /\ bus_id \in matching
          /\ \A i \in matching : i <= bus_id
    /\ (bus_hardware_ids # <<>> /\ pc # "L464") =>
          /\ matching # {} => bus_id # -1 /\ ~NoControllerFound
          /\ matching = {} => pc = "raised" /\ NoControllerFound
    /\ NoControllerFound =>
          /\ bus_hardware_ids # <<>> /\ matching = {}
          /\ bus_id = -1
          /\ ~Called("openBusHardwareWithProtocol")
          /\ LastCall.op = "listAvailableBusHardware"

\* two adapters, the only 'Nanotec VCP' one at index 0: index 0 is returned
C14_Witness ==
    /\ pc = "L465" /\ Len(bus_hardware_ids) = 2
    /\ VcpIndices = {0}
    /\ bus_id = 0

====
